---- MODULE Spec2Model ----
(***************************************************************************)
(* Model of the render-to-PDF-and-publish pipeline of the usePdfUpload     *)
(* hook (src/src/hooks/usePdfUpload.js and its variants).                  *)
(*                                                                         *)
(* One hook instance is modelled.  Every action is one JavaScript task:    *)
(* the code that runs between two awaits of generateAndUploadPdf.  React   *)
(* keeps the state cell pdfUploadStatus; the callback reads the copy of    *)
(* uploading/success/url that its closure captured at the last render.     *)
(*                                                                         *)
(* An identifier is the tuple of its characters, so that replace() can be  *)
(* computed; any other string is a one-element tuple; null and undefined   *)
(* are the tuples NULL and UNDEFINED, the empty string is <<>>.            *)
(***************************************************************************)
EXTENDS Integers, Sequences, FiniteSets, TLC

\* ---------------------------------------------------------------- bounds
MaxCalls == 3
MaxAttempts == 2
MaxImages == 1
\* images of a container when the readiness gate is studied on its own
MaxGateImages == 3
\* images put into a container after the gate was called on it
MaxLate == 1
\* length of the identifiers handed to the file name and the generator
MaxLen == 2
\* calls of generatePurchaseConfirmationHTML with the same data
MaxGenerate == 2
\* pieces a CSS string handed to stripCssImports is put together from
MaxPieces == 4

Calls == 1..MaxCalls

\* ---------------------------------------------------------------- values
NULL == <<"NULL">>
UNDEFINED == <<"UNDEFINED">>
PENDING == <<"PENDING">>

\* JavaScript truthiness of a string-or-null value
Falsy(v) == v = NULL \/ v = UNDEFINED \/ v = <<>>

IdA == <<"B", "R", "-", "1">>
IdB == <<"B", "R", "/", "2">>
ValidIds == {IdA, IdB}
\* identifiers a caller may pass: a valid one or the empty string
IdArgs == ValidIds \cup {<<>>}
\* confirmationData: an object, or null
DATA == <<"DATA">>
DataArgs == {DATA, NULL}

Variants == {"html2pdf", "jsPDF"}

MsgMissing == <<"Fehlende Daten fuer PDF-Generierung.">>
MsgUnknown == <<"Unbekannter Fehler beim PDF-Upload.">>
MsgNoUrl == <<"Konnte keine oeffentliche URL fuer das PDF erhalten.">>
\* messages of errors thrown while the markup is built or rasterized
MsgAssemble == <<"assemble failed">>
MsgRaster == <<"rasterize failed">>
\* messages an error object of the storage or record sink may carry
UploadErrors == {<<"upload rejected">>, <<>>}
\* the storage sink's refusal to replace an object that exists
MsgConflict == <<"The resource already exists">>
DbErrors == {<<"update failed">>, <<>>}
OK == <<"OK">>
\* doc.html reports a failure on the promise it returns and never runs callback
NoCallback == <<"NO CALLBACK">>
\* the rasterizer hands back a Blob of size 0, or null instead of a Blob
EmptyBlob == <<"BLOB OF SIZE 0">>
NullBlob == <<"NULL BLOB">>
\* the TypeError of reading pdfBlob.size of null
MsgNullSize == <<"Cannot read properties of null (reading 'size')">>
\* what the rasterizer of variant v may answer: a usable Blob (OK), an empty
\* one, null, an error, or (jsPDF) nothing at all
RasterAnswers(v) ==
  {OK, EmptyBlob, NullBlob, MsgRaster} \cup (IF v = "jsPDF" THEN {NoCallback} ELSE {})

VARIABLES
  variant,          \* which pipeline variant this hook instance is
  pdfUploadStatus,  \* the useState cell
  closure,          \* uploading/success/url captured by the current callback
  nCalls,           \* number of generateAndUploadPdf calls made so far
  pc,               \* per call: where the async function is suspended
  ankaufsNummer,    \* per call: the identifier argument, while the attempt uses it
  ret,              \* per call: the value the returned promise resolved to
  outcome,          \* per call: which exit the call took
  tempContainer,    \* per call: TRUE while the local variable is non-null
  body,             \* containers attached to document.body (by call)
  totalImages,      \* per call: images enumerated by the readiness gate
  loadedImagesCount,\* per call: the gate's counter
  listeners,        \* per call: images carrying the markLoaded listener
  loading,          \* per call: images that will still fire load or error
  resolved,         \* per call: how often the gate's resolve was invoked
  inserted,         \* per call: images put into the container after the gate's call
  lateLoading,      \* per call: those of them that will still fire load or error
  publicPdfUrl,     \* per call: the local holding the resolved public URL
  rasterCalls,      \* per call: rasterizer invocations
  uploadCalls,      \* per call: storage.upload invocations
  getUrlCalls,      \* per call: storage.getPublicUrl invocations
  updateCalls,      \* per call: record update invocations
  toastCalls,       \* per call: toast invocations
  storage,          \* storage sink: file name -> call whose blob it holds
  records,          \* record sink: ankaufs_nummer -> pdf_url
  immediate,        \* per call: repeats the previous call in the same tick
  input,            \* what the step just taken was handed: operation, call, values
  observed,         \* urls a render has handed to the callback with success
  dataForPdf,       \* generatePurchaseConfirmationHTML: its data argument
  outputType,       \* generatePurchaseConfirmationHTML: its outputType argument
  html,             \* generatePurchaseConfirmationHTML: the markup last returned
  identifier,       \* generatePurchaseConfirmationHTML: its local ankaufsNummer, per call made
  fileNames,        \* the const fileName and the names upload and getPublicUrl were given
  pipeline,         \* which generateAndUploadPdf has filled its container, "none" before
  innerHTML,        \* tempContainer.innerHTML as assigned by it
  rawCss,           \* the CSS string handed to stripCssImports
  cleanedCss        \* what stripCssImports returned for it

vars == <<variant, pdfUploadStatus, closure, nCalls, pc, ankaufsNummer, ret,
          outcome, tempContainer, body, totalImages, loadedImagesCount, listeners,
          loading, resolved, publicPdfUrl, uploadCalls, getUrlCalls, updateCalls,
          toastCalls, storage, records, immediate, input, observed, rasterCalls,
          inserted, lateLoading,
          dataForPdf, outputType, html, identifier, fileNames, pipeline, innerHTML,
          rawCss, cleanedCss>>

callVars == <<nCalls, ankaufsNummer, immediate>>
gateVars == <<totalImages, loadedImagesCount, listeners, loading, resolved,
              inserted, lateLoading>>
countVars == <<uploadCalls, getUrlCalls, updateCalls>>
sinkVars == <<storage, records>>
\* the state of the library functions studied on their own
libVars == <<dataForPdf, outputType, html, identifier, fileNames, pipeline, innerHTML,
          rawCss, cleanedCss>>
\* the state of the hook
hookVars == <<variant, pdfUploadStatus, closure, nCalls, pc, ankaufsNummer, ret,
              outcome, tempContainer, body, totalImages, loadedImagesCount, listeners,
              loading, resolved, inserted, lateLoading, publicPdfUrl, rasterCalls,
              uploadCalls, getUrlCalls,
              updateCalls, toastCalls, storage, records, immediate, input, observed>>

\* ------------------------------------------------------- pure functions

\* /[^a-zA-Z0-9-_]/ : the characters the file name keeps
SafeChars ==
  {"a", "b", "c", "d", "e", "f", "g", "h", "i", "j", "k", "l", "m",
   "n", "o", "p", "q", "r", "s", "t", "u", "v", "w", "x", "y", "z",
   "A", "B", "C", "D", "E", "F", "G", "H", "I", "J", "K", "L", "M",
   "N", "O", "P", "Q", "R", "S", "T", "U", "V", "W", "X", "Y", "Z",
   "0", "1", "2", "3", "4", "5", "6", "7", "8", "9", "-", "_"}

RECURSIVE SanitizeDropping(_)
\* a sanitization that deletes the characters outside the class
SanitizeDropping(s) ==
  IF s = <<>> THEN <<>>
  ELSE (IF Head(s) \in SafeChars THEN <<Head(s)>> ELSE <<>>) \o SanitizeDropping(Tail(s))

RECURSIVE Sanitize(_)
\* ankaufsNummer.replace(/[^a-zA-Z0-9-_]/g, '_')
Sanitize(s) ==
  IF s = <<>> THEN <<>>
  ELSE <<IF Head(s) \in SafeChars THEN Head(s) ELSE "_">> \o Sanitize(Tail(s))

\* `begleitschein_${...}.pdf`
FileName(id) == <<"begleitschein_">> \o Sanitize(id) \o <<".pdf">>

\* what the storage sink answers for getPublicUrl(fileName) when it has one
PublicUrlOf(fileName) == <<"https://storage/lieferschein/">> \o fileName

\* err.message || 'Unbekannter Fehler beim PDF-Upload.'
ErrorText(message) == IF Falsy(message) THEN MsgUnknown ELSE message

\* !confirmationData || !ankaufsNummer
MissingArgs(data, id) == Falsy(data) \/ Falsy(id)

\* the upload's error is not looked at
UploadFailedNever(res) == FALSE

\* whether the code after the rasterizer reaches upload(fileName, pdfBlob):
\* the html2pdf variant reads pdfBlob.size first, the jsPDF variant tests
\* !pdfBlob || pdfBlob.size < 2000 and only warns
ReachesUpload(v, res) ==
  \/ res \in {OK, EmptyBlob}
  \/ res = NullBlob /\ v = "jsPDF"

\* the message of the error the catch block receives from the rasterizer step
RasterError(res) == IF res = NullBlob THEN MsgNullSize ELSE res

\* an upload that does not ask for replacement
UploadOptionsNoUpsert == [contentType |-> "application/pdf", upsert |-> FALSE]

\* { contentType: 'application/pdf', upsert: true }
UploadOptions == [contentType |-> "application/pdf", upsert |-> TRUE]

\* what the storage sink may answer to upload(fileName, pdfBlob, options):
\* without upsert it does not replace an object that exists
UploadAnswers(exists, options) ==
  IF exists /\ ~options.upsert THEN {MsgConflict} \cup UploadErrors
  ELSE {OK} \cup UploadErrors

\* the record sink holds no row for an identifier
NoRow == <<"NO ROW">>

\* .update({ pdf_url: publicPdfUrl }).eq('ankaufs_nummer', ankaufsNummer):
\* the rows that match are changed, and there may be none
Updated(rows, id, url) ==
  IF rows[id] = NoRow THEN rows ELSE [rows EXCEPT ![id] = url]

\* if (uploadError)
UploadFailed(res) == res # OK

\* a check that tests the answer only against undefined, not against ''
NoPublicUrlUndefinedOnly(url) == url = UNDEFINED

\* if (!publicPdfUrl)
NoPublicUrl(url) == Falsy(url)

\* the record update's error is not looked at
DbFailedNever(res) == FALSE

\* if (dbError)
DbFailed(res) == res # OK

InitialStatus == [uploading |-> FALSE, success |-> FALSE, error |-> NULL, url |-> NULL]

\* a validation write that replaces the whole status instead of spreading prev
ValidationStatusReset(prev) ==
  [uploading |-> FALSE, success |-> FALSE, error |-> MsgMissing, url |-> NULL]

\* setPdfUploadStatus((prev) => ({ ...prev, error: 'Fehlende Daten ...' }))
ValidationStatus(prev) == [prev EXCEPT !.error = MsgMissing]

\* a transition to Uploading that leaves an error text in place
UploadingStatusKeepsError ==
  [uploading |-> TRUE, success |-> FALSE, error |-> MsgUnknown, url |-> NULL]

\* setPdfUploadStatus({ uploading: true, success: false, error: null, url: null })
UploadingStatus == [uploading |-> TRUE, success |-> FALSE, error |-> NULL, url |-> NULL]

\* a success write that leaves the uploading flag set
SuccessStatusStillUploading(url) ==
  [uploading |-> TRUE, success |-> TRUE, error |-> NULL, url |-> url]

\* setPdfUploadStatus({ uploading: false, success: true, error: null, url })
SuccessStatus(url) == [uploading |-> FALSE, success |-> TRUE, error |-> NULL, url |-> url]

\* a catch block that leaves the uploading flag set
CatchStatusStillUploading(message) ==
  [uploading |-> TRUE, success |-> FALSE, error |-> ErrorText(message), url |-> NULL]

\* the status written by the catch block
CatchStatus(message) ==
  [uploading |-> FALSE, success |-> FALSE, error |-> ErrorText(message), url |-> NULL]

\* the dependency list of useCallback: what a render hands to the callback
Captured(status) ==
  [uploading |-> status.uploading, success |-> status.success, url |-> status.url]

\* a cleanup that never calls removeChild
DetachNever(attached, c, local) == attached

\* if (tempContainer && document.body.contains(tempContainer)) removeChild
Detach(attached, c, local) == IF local /\ c \in attached THEN attached \ {c} ELSE attached

\* the value the promise of a successful attempt resolves to: the html2pdf
\* variants return publicPdfUrl, the jsPDF variant awaits the inner promise
\* and falls off the end of the try block
SuccessReturn(v, url) == IF v = "jsPDF" THEN UNDEFINED ELSE url

\* a step that calls its collaborator a second time
InvokedTwice(n) == n + 2

\* one invocation of a collaborator (rasterizer, upload, getPublicUrl, update)
Invoked(n) == n + 1

\* an attempt that never appends its container
AttachNothing(attached, c) == attached

\* document.body.appendChild(tempContainer)
Attach(attached, c) == attached \cup {c}

\* a cache branch that returns no URL
CachedReturnNothing(captured) == NULL

\* if (pdfUploadStatus.success && pdfUploadStatus.url) return pdfUploadStatus.url
CachedReturn(captured) == captured.url

\* a deduplication branch that returns nothing
IgnoredReturnNothing(captured) == UNDEFINED

\* return pdfUploadStatus.url, of the status the callback captured
IgnoredReturn(captured) == captured.url

\* a count taken from the live container instead of the array copied at the call
TotalImagesLive(snapshot, late) == snapshot + late

\* const totalImages = images.length, images being Array.from(querySelectorAll):
\* a copy that does not follow the container
TotalImages(snapshot, late) == snapshot

\* a catch block without the toast call
ToastNever(n) == n

\* toast({ title, description, variant: 'destructive' })
Toast(n) == n + 1

\* the record of a step's input: the operation, the call it belongs to and
\* up to two values (arguments, or a collaborator's answer)
Input(op, c, a, b) == [op |-> op, c |-> c, a |-> a, b |-> b]

\* ------------------------------------------------------------- initial
HookInit ==
  /\ variant \in Variants
  /\ pdfUploadStatus = InitialStatus
  /\ closure = Captured(InitialStatus)
  /\ nCalls = 0
  /\ pc = [c \in Calls |-> "idle"]
  /\ ankaufsNummer = [c \in Calls |-> NULL]
  /\ ret = [c \in Calls |-> PENDING]
  /\ outcome = [c \in Calls |-> "none"]
  /\ tempContainer = [c \in Calls |-> FALSE]
  /\ body = {}
  /\ totalImages = [c \in Calls |-> 0]
  /\ loadedImagesCount = [c \in Calls |-> 0]
  /\ listeners = [c \in Calls |-> {}]
  /\ loading = [c \in Calls |-> {}]
  /\ resolved = [c \in Calls |-> 0]
  /\ inserted = [c \in Calls |-> 0]
  /\ lateLoading = [c \in Calls |-> 0]
  /\ publicPdfUrl = [c \in Calls |-> NULL]
  /\ rasterCalls = [c \in Calls |-> 0]
  /\ uploadCalls = [c \in Calls |-> 0]
  /\ getUrlCalls = [c \in Calls |-> 0]
  /\ updateCalls = [c \in Calls |-> 0]
  /\ toastCalls = [c \in Calls |-> 0]
  /\ storage = [f \in {FileName(i) : i \in ValidIds} |-> 0]
  /\ records = [i \in ValidIds |-> NULL]
  /\ immediate = [c \in Calls |-> FALSE]
  /\ input = Input("init", 0, NULL, NULL)
  /\ observed = {}

\* no call of the generator or of the file name expression has been made
LibIdle ==
  /\ dataForPdf = [ankaufsNummer |-> <<>>, submissionDate |-> 0]
  /\ outputType = UNDEFINED
  /\ html = NULL
  /\ identifier = <<>>
  /\ fileNames = [fileName |-> NULL, upload |-> NULL, getPublicUrl |-> NULL]
  /\ pipeline = "none"
  /\ innerHTML = NULL
  /\ rawCss = <<>>
  /\ cleanedCss = NULL

Init == HookInit /\ LibIdle

\* ------------------------------------------------------------- actions

\* React re-renders the hook: the callback is re-created with the current
\* values of its dependencies.
Render ==
  /\ closure # Captured(pdfUploadStatus)
  /\ closure' = Captured(pdfUploadStatus)
  /\ observed' = IF pdfUploadStatus.success /\ ~Falsy(pdfUploadStatus.url)
                 THEN observed \cup {pdfUploadStatus.url} ELSE observed
  /\ input' = Input("render", 0, NULL, NULL)
  /\ UNCHANGED <<variant, pdfUploadStatus, callVars, pc, ret, outcome, tempContainer,
                 body, gateVars, publicPdfUrl, rasterCalls, countVars, sinkVars,
                 toastCalls, libVars>>

\* catch (err) { setPdfUploadStatus(...); toast(...); return null } finally {...}
\* run by call c for an error carrying `message`
Catch(c, message, local) ==
  /\ pdfUploadStatus' = CatchStatus(message)
  /\ toastCalls' = [toastCalls EXCEPT ![c] = Toast(@)]
  /\ ret' = [ret EXCEPT ![c] = NULL]
  /\ outcome' = [outcome EXCEPT ![c] = "failed"]
  /\ body' = Detach(body, c, local)
  /\ pc' = [pc EXCEPT ![c] = "done"]

\* a call with these arguments gets past validation and deduplication
Starts(data, id) ==
  /\ ~MissingArgs(data, id)
  /\ ~closure.uploading
  /\ ~(closure.success /\ ~Falsy(closure.url))

\* call c repeats the arguments of the call before it in the same tick: that
\* call is still suspended at its first await (the 200 ms timer has not
\* fired) and no render has handed the callback the uploading flag
Repeats(c, data, id) ==
  /\ c > 1
  /\ pc[IF c > 1 THEN c - 1 ELSE c] = "delay"
  /\ ~closure.uploading
  /\ ~MissingArgs(data, id)
  /\ id = ankaufsNummer[IF c > 1 THEN c - 1 ELSE c]

\* the number of attempts started so far
Attempts == Cardinality({c \in Calls : outcome[c] \in {"success", "failed"} \/ pc[c] \notin {"idle", "done"}})

\* generateAndUploadPdf(confirmationData, ankaufsNummer, qrCodeDataURL), up to
\* its first await.  assembleOk: whether building the markup returns.
Call(c, data, id, assembleOk) ==
  /\ c = nCalls + 1
  /\ pc[c] = "idle"
  /\ Starts(data, id) => Attempts < MaxAttempts
  /\ nCalls' = c
  /\ input' = Input("call", c, data, id)
  /\ ankaufsNummer' = [ankaufsNummer EXCEPT ![c] = IF Starts(data, id) THEN id ELSE NULL]
  /\ immediate' = [immediate EXCEPT ![c] = Repeats(c, data, id)]
  /\ UNCHANGED <<variant, closure, gateVars, publicPdfUrl, rasterCalls, countVars,
                 sinkVars, observed, libVars>>
  /\ IF MissingArgs(data, id)
     THEN /\ pdfUploadStatus' = ValidationStatus(pdfUploadStatus)
          /\ ret' = [ret EXCEPT ![c] = NULL]
          /\ outcome' = [outcome EXCEPT ![c] = "invalid"]
          /\ pc' = [pc EXCEPT ![c] = "done"]
          /\ UNCHANGED <<tempContainer, body, toastCalls>>
     ELSE IF closure.uploading
     THEN /\ ret' = [ret EXCEPT ![c] = IgnoredReturn(closure)]
          /\ outcome' = [outcome EXCEPT ![c] = "ignored"]
          /\ pc' = [pc EXCEPT ![c] = "done"]
          /\ UNCHANGED <<pdfUploadStatus, tempContainer, body, toastCalls>>
     ELSE IF closure.success /\ ~Falsy(closure.url)
     THEN /\ ret' = [ret EXCEPT ![c] = CachedReturn(closure)]
          /\ outcome' = [outcome EXCEPT ![c] = "cached"]
          /\ pc' = [pc EXCEPT ![c] = "done"]
          /\ UNCHANGED <<pdfUploadStatus, tempContainer, body, toastCalls>>
     ELSE IF assembleOk
     THEN /\ pdfUploadStatus' = UploadingStatus
          /\ tempContainer' = [tempContainer EXCEPT ![c] = TRUE]
          /\ body' = Attach(body, c)
          /\ pc' = [pc EXCEPT ![c] = "delay"]
          /\ UNCHANGED <<ret, outcome, toastCalls>>
     ELSE /\ tempContainer' = [tempContainer EXCEPT ![c] = TRUE]
          /\ Catch(c, MsgAssemble, TRUE)

\* the images of a container as the gate finds them
ImageStates == {"loaded", "loading", "failed"}

\* the number of images found complete with non-zero natural size
LoadedAtCall(imgs) == Cardinality({i \in DOMAIN imgs : imgs[i] = "loaded"})

\* a gate without the early return for an empty enumeration: forEach over no
\* image never reaches resolve
ResolvesAtCallNoEmptyTest(imgs) == Len(imgs) > 0 /\ LoadedAtCall(imgs) = Len(imgs)

\* a gate that resolves without looking at its images
ResolvesAtCallAlways(imgs) == TRUE

\* whether resolve() is invoked while waitForAllImagesInContainer itself runs:
\* totalImages === 0, or the last image of forEach is found loaded
ResolvesAtCall(imgs) == Len(imgs) = 0 \/ LoadedAtCall(imgs) = Len(imgs)

\* the 200 ms timer fires and waitForAllImagesInContainer(tempContainer) runs;
\* when it resolves at once the rasterizer is started
TimerFires(c, imgs) ==
  /\ pc[c] = "delay"
  /\ totalImages' = [totalImages EXCEPT ![c] = Len(imgs)]
  /\ loadedImagesCount' = [loadedImagesCount EXCEPT ![c] = LoadedAtCall(imgs)]
  /\ listeners' = [listeners EXCEPT ![c] = {i \in DOMAIN imgs : imgs[i] # "loaded"}]
  /\ loading' = [loading EXCEPT ![c] = {i \in DOMAIN imgs : imgs[i] = "loading"}]
  /\ LET done == ResolvesAtCall(imgs)
     IN /\ resolved' = [resolved EXCEPT ![c] = IF done THEN 1 ELSE 0]
        /\ rasterCalls' = [rasterCalls EXCEPT ![c] = IF done THEN Invoked(@) ELSE @]
        /\ pc' = [pc EXCEPT ![c] = IF done THEN "raster" ELSE "gate"]
  /\ input' = Input("timer", c, NULL, NULL)
  /\ UNCHANGED <<variant, pdfUploadStatus, closure, callVars, ret, outcome, tempContainer,
                 body, publicPdfUrl, countVars, sinkVars, toastCalls, observed, libVars,
                 inserted, lateLoading>>

\* image i of call c's container fires load or error: markLoaded runs
ImageEvent(c, i) ==
  /\ pc[c] = "gate"
  /\ i \in loading[c]
  /\ i \in listeners[c]
  /\ loading' = [loading EXCEPT ![c] = @ \ {i}]
  /\ LET n == loadedImagesCount[c] + 1
         total == TotalImages(totalImages[c], inserted[c])
     IN /\ loadedImagesCount' = [loadedImagesCount EXCEPT ![c] = n]
        /\ listeners' = [listeners EXCEPT ![c] = @ \ {i}]
        /\ resolved' = [resolved EXCEPT ![c] = IF n = total THEN @ + 1 ELSE @]
        /\ rasterCalls' = [rasterCalls EXCEPT ![c] = IF n = total THEN Invoked(@) ELSE @]
        /\ pc' = [pc EXCEPT ![c] = IF n = total THEN "raster" ELSE "gate"]
  /\ input' = Input("image", c, NULL, NULL)
  /\ UNCHANGED <<variant, pdfUploadStatus, closure, callVars, ret, outcome, tempContainer,
                 body, totalImages, publicPdfUrl, countVars, sinkVars, toastCalls, observed,
                 libVars, inserted, lateLoading>>

\* the rasterizer (html2pdf().outputPdf / doc.html callback) finishes:
\* the container is removed and the upload is issued, or the error is caught
RasterReturns(c, res) ==
  /\ pc[c] = "raster"
  /\ input' = Input("raster", c, res, NULL)
  /\ UNCHANGED <<variant, closure, callVars, gateVars, publicPdfUrl, rasterCalls,
                 getUrlCalls, updateCalls, sinkVars, observed, libVars>>
  /\ IF ReachesUpload(variant, res)
     THEN /\ body' = Detach(body, c, tempContainer[c])
          /\ tempContainer' = [tempContainer EXCEPT ![c] = FALSE]
          /\ uploadCalls' = [uploadCalls EXCEPT ![c] = Invoked(@)]
          /\ pc' = [pc EXCEPT ![c] = "upload"]
          /\ UNCHANGED <<pdfUploadStatus, ret, outcome, toastCalls>>
     ELSE IF res = NoCallback
     THEN /\ pc' = [pc EXCEPT ![c] = "hung"]
          /\ UNCHANGED <<pdfUploadStatus, ret, outcome, toastCalls, body,
                         tempContainer, uploadCalls>>
     ELSE /\ Catch(c, RasterError(res), tempContainer[c])
          /\ UNCHANGED <<tempContainer, uploadCalls>>

\* the object call c uploads to is in storage already
Exists(c) == pc[c] = "upload" /\ storage[FileName(ankaufsNummer[c])] # 0

\* what getPublicUrl may answer: the URL, '' or no data/publicUrl at all
UrlAnswers(fileName) == {PublicUrlOf(fileName), <<>>, UNDEFINED}

\* storage.upload returns; on success getPublicUrl is called and the record
\* update is issued
UploadReturns(c, res, url) ==
  /\ pc[c] = "upload"
  /\ input' = Input("upload", c, res, IF res = OK THEN url ELSE NULL)
  /\ UNCHANGED <<variant, closure, callVars, gateVars, tempContainer, rasterCalls,
                 uploadCalls, records, observed, libVars>>
  /\ IF UploadFailed(res)
     THEN /\ Catch(c, res, tempContainer[c])
          /\ UNCHANGED <<publicPdfUrl, getUrlCalls, updateCalls, storage>>
     ELSE /\ storage' = [storage EXCEPT ![FileName(ankaufsNummer[c])] = c]
          /\ getUrlCalls' = [getUrlCalls EXCEPT ![c] = Invoked(@)]
          /\ IF NoPublicUrl(url)
             THEN /\ Catch(c, MsgNoUrl, tempContainer[c])
                  /\ UNCHANGED <<publicPdfUrl, updateCalls>>
             ELSE /\ publicPdfUrl' = [publicPdfUrl EXCEPT ![c] = url]
                  /\ updateCalls' = [updateCalls EXCEPT ![c] = Invoked(@)]
                  /\ pc' = [pc EXCEPT ![c] = "update"]
                  /\ UNCHANGED <<pdfUploadStatus, ret, outcome, body, toastCalls>>

\* the record update returns: success is written, or the error is caught
UpdateReturns(c, res) ==
  /\ pc[c] = "update"
  /\ input' = Input("update", c, res, NULL)
  /\ UNCHANGED <<variant, closure, callVars, gateVars, tempContainer, publicPdfUrl,
                 rasterCalls, countVars, storage, observed, libVars>>
  /\ IF DbFailed(res)
     THEN /\ Catch(c, res, tempContainer[c])
          /\ UNCHANGED records
     ELSE /\ records' = Updated(records, ankaufsNummer[c], publicPdfUrl[c])
          /\ pdfUploadStatus' = SuccessStatus(publicPdfUrl[c])
          /\ ret' = [ret EXCEPT ![c] = SuccessReturn(variant, publicPdfUrl[c])]
          /\ outcome' = [outcome EXCEPT ![c] = "success"]
          /\ body' = Detach(body, c, tempContainer[c])
          /\ pc' = [pc EXCEPT ![c] = "done"]
          /\ UNCHANGED toastCalls

ImageLists == UNION {[1..n -> ImageStates] : n \in 0..MaxImages}

Next ==
  \/ Render
  \/ \E c \in Calls, data \in DataArgs, id \in IdArgs, assembleOk \in BOOLEAN :
       Call(c, data, id, assembleOk)
  \/ \E c \in Calls, imgs \in ImageLists : TimerFires(c, imgs)
  \/ \E c \in Calls, i \in 1..MaxImages : ImageEvent(c, i)
  \/ \E c \in Calls, res \in RasterAnswers(variant) : RasterReturns(c, res)
  \/ \E c \in Calls : \E res \in UploadAnswers(Exists(c), UploadOptions) :
       \E url \in UrlAnswers(FileName(ankaufsNummer[c])) : UploadReturns(c, res, url)
  \/ \E c \in Calls, res \in {OK} \cup DbErrors : UpdateReturns(c, res)

Spec == Init /\ [][Next]_vars

\* the browser delivers every timer and every pending image event, and every
\* collaborator call (rasterizer, upload, record update) comes back
HookFairness ==
  /\ \A c \in Calls : WF_vars(\E imgs \in ImageLists : TimerFires(c, imgs))
  /\ \A c \in Calls, i \in 1..MaxImages : WF_vars(ImageEvent(c, i))
  /\ \A c \in Calls : WF_vars(\E res \in RasterAnswers(variant) : RasterReturns(c, res))
  /\ \A c \in Calls :
       WF_vars(\E res \in UploadAnswers(Exists(c), UploadOptions) :
                 \E url \in UrlAnswers(FileName(ankaufsNummer[c])) : UploadReturns(c, res, url))
  /\ \A c \in Calls : WF_vars(\E res \in {OK} \cup DbErrors : UpdateReturns(c, res))

FairSpec == Init /\ [][Next]_vars /\ HookFairness

\* ------------------------------------- the generator and the file name

\* the characters identifiers are built from: kept ones and replaced ones
IdChars == {"B", "r", "7", "-", "_", "/"}
IdSlash == <<"B", "R", "/", "1", "2", " ", "3", "4">>
IdPlain == <<"B", "R", "-", "1", "2", "3", "4", "5", "6", "7", "8">>
\* data.ankaufsNummer: a string of up to MaxLen characters, or not supplied
LibIds == UNION {[1..n -> IdChars] : n \in 0..MaxLen} \cup {IdSlash, IdPlain, UNDEFINED}

\* data.submissionDate, written as the epoch milliseconds the date string
\* denotes; InvalidDate is a missing or unparsable one
InvalidDate == -1
TimeStamps == {0, 7, 12345678, 100000007, 200000007, 987654321}
SubmissionDates == TimeStamps \cup {InvalidDate}
\* confirmationData without a submissionDate
AbsentDate == -3

\* the outputType argument: the two named modes, omitted, null, anything else
OutputTypes == {<<"bodyContent">>, <<"fullDocument">>, UNDEFINED, NULL, <<"pdf">>}

NaN == -2
\* new Date(submissionDate).getTime()
GetTime(submissionDate) ==
  IF submissionDate \in {InvalidDate, AbsentDate} THEN NaN ELSE submissionDate

DigitChars == <<"0", "1", "2", "3", "4", "5", "6", "7", "8", "9">>

RECURSIVE Digits(_)
\* the decimal digits of a non-negative integer
Digits(n) ==
  IF n < 10 THEN <<DigitChars[n + 1]>>
  ELSE Digits(n \div 10) \o <<DigitChars[(n % 10) + 1]>>

\* Number.prototype.toString()
ToString10(n) == IF n = NaN THEN <<"N", "a", "N">> ELSE Digits(n)

\* a slice from the front: s.slice(0, k)
SliceFront(s, k) == IF Len(s) <= k THEN s ELSE SubSeq(s, 1, k)

\* s.slice(-k)
Slice(s, k) == IF Len(s) <= k THEN s ELSE SubSeq(s, Len(s) - k + 1, Len(s))

\* providedAnkaufsNummer || `BR-${new Date(submissionDate).getTime().toString().slice(-8)}`
AnkaufsNummerOf(d) ==
  IF ~Falsy(d.ankaufsNummer) THEN d.ankaufsNummer
  ELSE <<"B", "R", "-">> \o Slice(ToString10(GetTime(d.submissionDate)), 8)

\* new Date(submissionDate).toLocaleDateString('de-DE', {...})
FormattedDate(submissionDate) ==
  IF submissionDate \in {InvalidDate, AbsentDate} THEN <<"Invalid Date">>
  ELSE <<"de-DE:">> \o Digits(submissionDate)

\* getPage1Content(data, ankaufsNummer, formattedDate): markup that depends on
\* its three arguments
Page1Content(d, id, date) == <<"page1(">> \o id \o date \o <<")">>

\* getPage2Content(data)
Page2Content(d) == <<"page2()">>

\* getPdfStyles(): the style sheet, a font import followed by rules
PdfStyles == <<"@import", " ", "url", "(", "fonts", ")", ";", ".pdf-container{}">>

\* \s
Whitespace == {" ", "\n"}

\* token t stands at position i of s
At(s, i, t) == i <= Len(s) /\ s[i] = t

RECURSIVE SkipSpace(_, _)
\* \s* from position i: the first position that holds no white space
SkipSpace(s, i) ==
  IF i <= Len(s) /\ s[i] \in Whitespace THEN SkipSpace(s, i + 1) ELSE i

RECURSIVE FirstClose(_, _)
\* [^)]*\) from position i: the position of the first ')', 0 if there is none
FirstClose(s, i) ==
  IF i > Len(s) THEN 0
  ELSE IF s[i] = ")" THEN i
  ELSE FirstClose(s, i + 1)

\* /@import\s+url\([^)]*\)\s*;/ tried at position i: the position of the
\* last token of the match, 0 if there is no match here
ImportMatch(s, i) ==
  IF ~(At(s, i, "@import") /\ i + 1 <= Len(s) /\ s[i + 1] \in Whitespace) THEN 0
  ELSE LET u == SkipSpace(s, i + 1)
       IN IF ~(At(s, u, "url") /\ At(s, u + 1, "(")) THEN 0
          ELSE LET p == FirstClose(s, u + 2)
               IN IF p = 0 THEN 0
                  ELSE LET q == SkipSpace(s, p + 1)
                       IN IF At(s, q, ";") THEN q ELSE 0

RECURSIVE ReplaceFrom(_, _)
\* String.prototype.replace with the g flag and '': one pass from the left,
\* each match dropped, the scan going on behind it
ReplaceFrom(s, i) ==
  IF i > Len(s) THEN <<>>
  ELSE LET e == ImportMatch(s, i)
       IN IF e > 0 THEN ReplaceFrom(s, e + 1)
          ELSE <<s[i]>> \o ReplaceFrom(s, i + 1)

\* cssString.replace(/@import\s+url\([^)]*\)\s*;/g, '')
StripCssImports(cssString) == ReplaceFrom(cssString, 1)

\* the template literal bodyContent
BodyContent(d) ==
  <<"<div class=pdf-container>", "<div class=pdf-page pdf-page-1>">>
    \o Page1Content(d, AnkaufsNummerOf(d), FormattedDate(d.submissionDate))
    \o <<"</div>", "<div class=page-break></div>", "<div class=pdf-page pdf-page-2>">>
    \o Page2Content(d)
    \o <<"</div>", "</div>">>

\* the template literal returned for every other outputType
FullDocument(d) ==
  <<"<!DOCTYPE html>", "<html lang=de>", "<head>", "<meta charset=UTF-8>",
    "<title>", "Begleitschein - ">>
    \o AnkaufsNummerOf(d)
    \o <<"</title>", "<style>">> \o PdfStyles \o <<"</style>", "</head>", "<body>">>
    \o BodyContent(d)
    \o <<"</body>", "</html>">>

\* a default parameter that falls back to the fragment
OutputTypeOfDefaultBody(arg) == IF arg = UNDEFINED THEN <<"bodyContent">> ELSE arg

\* (data, outputType = 'fullDocument'): the default replaces undefined only
OutputTypeOf(arg) == IF arg = UNDEFINED THEN <<"fullDocument">> ELSE arg

\* generatePurchaseConfirmationHTML(data, outputType)
GeneratePurchaseConfirmationHTML(d, arg) ==
  IF OutputTypeOf(arg) = <<"bodyContent">> THEN BodyContent(d) ELSE FullDocument(d)

\* some caller holds data and a mode; no call has been made yet
LibInit ==
  /\ HookInit
  /\ dataForPdf \in [ankaufsNummer : LibIds, submissionDate : SubmissionDates]
  /\ outputType \in OutputTypes
  /\ html = NULL
  /\ identifier = <<>>
  /\ fileNames = [fileName |-> NULL, upload |-> NULL, getPublicUrl |-> NULL]
  /\ pipeline = "none"
  /\ innerHTML = NULL
  /\ rawCss = <<>>
  /\ cleanedCss = NULL

\* one call generatePurchaseConfirmationHTML(dataForPdf, outputType)
Generate ==
  /\ Len(identifier) < MaxGenerate
  /\ identifier' = Append(identifier, AnkaufsNummerOf(dataForPdf))
  /\ html' = GeneratePurchaseConfirmationHTML(dataForPdf, outputType)
  /\ UNCHANGED <<dataForPdf, outputType, fileNames, pipeline, innerHTML, rawCss,
                 cleanedCss, hookVars>>

\* const fileName = `begleitschein_${...}.pdf`; upload(fileName, ...);
\* getPublicUrl(fileName), for the identifier of an attempt (never falsy)
NameFile ==
  /\ ~Falsy(dataForPdf.ankaufsNummer)
  /\ fileNames.fileName = NULL
  /\ LET fileName == FileName(dataForPdf.ankaufsNummer)
     IN fileNames' = [fileName |-> fileName, upload |-> fileName, getPublicUrl |-> fileName]
  /\ UNCHANGED <<dataForPdf, outputType, html, identifier, pipeline, innerHTML, rawCss,
                 cleanedCss, hookVars>>

LibNext == Generate \/ NameFile

LibSpec == LibInit /\ [][LibNext]_vars

\* ------------------------------------------- filling the staging container

\* the generateAndUploadPdf bodies: usePdfUpload.js 58-249, 308-481 and
\* 533-740, and part_001 525-709
Pipelines == {"html2pdf", "jsPDF", "html2pdfFull", "html2pdfFragment"}

\* the pipelines that test !confirmationData.submissionDate
DefaultsDate(p) == p \in {"html2pdf", "jsPDF"}

\* the submissionDate of the object handed to the generator
SubmissionDateOf(p, given, now) ==
  IF DefaultsDate(p) /\ given = AbsentDate THEN now ELSE given

\* the generator's second argument
ModeOf(p) ==
  CASE p = "html2pdf" -> <<"bodyContent">>
    [] p = "jsPDF" -> UNDEFINED
    [] p = "html2pdfFull" -> <<"fullDocument">>
    [] p = "html2pdfFragment" -> <<"bodyContent">>

\* `<style>${cleanedCss}</style>`
StyleBlock == <<"<style>">> \o StripCssImports(PdfStyles) \o <<"</style>">>

\* what is assigned to tempContainer.innerHTML
InnerHTMLOf(p, markup) ==
  IF p \in {"html2pdf", "jsPDF"} THEN StyleBlock \o markup ELSE markup

\* a validated call is about to fill its container: confirmationData with or
\* without a submissionDate, and a non-empty ankaufsNummer
StageInit ==
  /\ HookInit
  /\ dataForPdf \in [ankaufsNummer : {i \in LibIds : ~Falsy(i)},
                      submissionDate : SubmissionDates \cup {AbsentDate}]
  /\ outputType = UNDEFINED
  /\ html = NULL
  /\ identifier = <<>>
  /\ fileNames = [fileName |-> NULL, upload |-> NULL, getPublicUrl |-> NULL]
  /\ pipeline = "none"
  /\ innerHTML = NULL
  /\ rawCss = <<>>
  /\ cleanedCss = NULL

\* generateAndUploadPdf of pipeline p, from the creation of the container to
\* the assignment of its innerHTML; now is new Date()
Stage(p, now) ==
  /\ pipeline = "none"
  /\ LET d == [dataForPdf EXCEPT
                 !.submissionDate = SubmissionDateOf(p, dataForPdf.submissionDate, now)]
         markup == GeneratePurchaseConfirmationHTML(d, ModeOf(p))
     IN /\ dataForPdf' = d
        /\ outputType' = ModeOf(p)
        /\ identifier' = <<AnkaufsNummerOf(d)>>
        /\ html' = markup
        /\ innerHTML' = InnerHTMLOf(p, markup)
  /\ pipeline' = p
  /\ IF p \in {"html2pdf", "jsPDF"}
     THEN rawCss' = PdfStyles /\ cleanedCss' = StripCssImports(rawCss')
     ELSE UNCHANGED <<rawCss, cleanedCss>>
  /\ UNCHANGED <<fileNames, hookVars>>

\* the pieces CSS strings are put together from
CssPieces ==
  {<<"@import", " ", "url">>, <<"(", "a", ")", ";">>,
   <<"@import", "\n", "url", "(", ")", " ", ";">>, <<"body{}">>,
   <<"@import">>, <<"url", "(">>, <<")">>, <<";">>}

RECURSIVE Flatten(_)
\* the pieces of a list, joined
Flatten(pieces) ==
  IF pieces = <<>> THEN <<>> ELSE Head(pieces) \o Flatten(Tail(pieces))

\* the CSS strings of up to MaxPieces pieces
CssStrings == {Flatten(ps) : ps \in UNION {[1..n -> CssPieces] : n \in 0..MaxPieces}}

\* some caller holds a CSS string; stripCssImports has not been called
CssInit ==
  /\ HookInit
  /\ dataForPdf = [ankaufsNummer |-> <<>>, submissionDate |-> 0]
  /\ outputType = UNDEFINED
  /\ html = NULL
  /\ identifier = <<>>
  /\ fileNames = [fileName |-> NULL, upload |-> NULL, getPublicUrl |-> NULL]
  /\ pipeline = "none"
  /\ innerHTML = NULL
  /\ rawCss \in CssStrings
  /\ cleanedCss = NULL

\* const cleanedCss = stripCssImports(rawCss)
StripImports ==
  /\ cleanedCss = NULL
  /\ cleanedCss' = StripCssImports(rawCss)
  /\ UNCHANGED <<dataForPdf, outputType, html, identifier, fileNames, pipeline,
                 innerHTML, rawCss, hookVars>>

CssNext == StripImports

CssSpec == CssInit /\ [][CssNext]_vars

StageNext == \E p \in Pipelines, now \in TimeStamps : Stage(p, now)

StageSpec == StageInit /\ [][StageNext]_vars

\* ------------------------------------------------- the readiness gate alone

\* the containers the gate is studied on: up to MaxGateImages images
GateImageLists == UNION {[1..n -> ImageStates] : n \in 0..MaxGateImages}

\* the first call has staged its container and waits for the 200 ms timer
GateInit ==
  /\ LibIdle
  /\ variant \in Variants
  /\ pdfUploadStatus = UploadingStatus
  /\ closure = Captured(InitialStatus)
  /\ nCalls = 1
  /\ pc = [c \in Calls |-> IF c = 1 THEN "delay" ELSE "idle"]
  /\ \E id \in ValidIds :
       /\ ankaufsNummer = [c \in Calls |-> IF c = 1 THEN id ELSE NULL]
       /\ input = Input("call", 1, DATA, id)
  /\ ret = [c \in Calls |-> PENDING]
  /\ outcome = [c \in Calls |-> "none"]
  /\ tempContainer = [c \in Calls |-> c = 1]
  /\ body = {1}
  /\ totalImages = [c \in Calls |-> 0]
  /\ loadedImagesCount = [c \in Calls |-> 0]
  /\ listeners = [c \in Calls |-> {}]
  /\ loading = [c \in Calls |-> {}]
  /\ resolved = [c \in Calls |-> 0]
  /\ inserted = [c \in Calls |-> 0]
  /\ lateLoading = [c \in Calls |-> 0]
  /\ publicPdfUrl = [c \in Calls |-> NULL]
  /\ rasterCalls = [c \in Calls |-> 0]
  /\ uploadCalls = [c \in Calls |-> 0]
  /\ getUrlCalls = [c \in Calls |-> 0]
  /\ updateCalls = [c \in Calls |-> 0]
  /\ toastCalls = [c \in Calls |-> 0]
  /\ storage = [f \in {FileName(i) : i \in ValidIds} |-> 0]
  /\ records = [i \in ValidIds |-> NULL]
  /\ immediate = [c \in Calls |-> FALSE]
  /\ observed = {}

\* an img element is put into call c's container while the gate waits: it is
\* not in the array the gate enumerated and carries no listener
InsertImage(c) ==
  /\ pc[c] = "gate"
  /\ inserted[c] < MaxLate
  /\ inserted' = [inserted EXCEPT ![c] = @ + 1]
  /\ lateLoading' = [lateLoading EXCEPT ![c] = @ + 1]
  /\ input' = Input("insert", c, NULL, NULL)
  /\ UNCHANGED <<variant, pdfUploadStatus, closure, callVars, pc, ret, outcome,
                 tempContainer, body, totalImages, loadedImagesCount, listeners, loading,
                 resolved, publicPdfUrl, rasterCalls, countVars, sinkVars, toastCalls,
                 observed, libVars>>

\* an image inserted late fires load or error: no markLoaded is attached to it
LateImageEvent(c) ==
  /\ lateLoading[c] > 0
  /\ lateLoading' = [lateLoading EXCEPT ![c] = @ - 1]
  /\ input' = Input("late", c, NULL, NULL)
  /\ UNCHANGED <<variant, pdfUploadStatus, closure, callVars, pc, ret, outcome,
                 tempContainer, body, totalImages, loadedImagesCount, listeners, loading,
                 resolved, inserted, publicPdfUrl, rasterCalls, countVars, sinkVars,
                 toastCalls, observed, libVars>>

\* the first call has uploaded its PDF, resolved the public URL and issued
\* the record update; the record store holds a row per identifier or not
RecordInit ==
  /\ LibIdle
  /\ variant \in Variants
  /\ pdfUploadStatus = UploadingStatus
  /\ closure = Captured(InitialStatus)
  /\ nCalls = 1
  /\ pc = [c \in Calls |-> IF c = 1 THEN "update" ELSE "idle"]
  /\ \E id \in ValidIds :
       /\ ankaufsNummer = [c \in Calls |-> IF c = 1 THEN id ELSE NULL]
       /\ publicPdfUrl = [c \in Calls |-> IF c = 1 THEN PublicUrlOf(FileName(id)) ELSE NULL]
       /\ storage = [f \in {FileName(i) : i \in ValidIds} |-> IF f = FileName(id) THEN 1 ELSE 0]
       /\ input = Input("upload", 1, OK, PublicUrlOf(FileName(id)))
  /\ ret = [c \in Calls |-> PENDING]
  /\ outcome = [c \in Calls |-> "none"]
  /\ tempContainer = [c \in Calls |-> FALSE]
  /\ body = {}
  /\ totalImages = [c \in Calls |-> 0]
  /\ loadedImagesCount = [c \in Calls |-> 0]
  /\ listeners = [c \in Calls |-> {}]
  /\ loading = [c \in Calls |-> {}]
  /\ resolved = [c \in Calls |-> IF c = 1 THEN 1 ELSE 0]
  /\ inserted = [c \in Calls |-> 0]
  /\ lateLoading = [c \in Calls |-> 0]
  /\ rasterCalls = [c \in Calls |-> IF c = 1 THEN 1 ELSE 0]
  /\ uploadCalls = [c \in Calls |-> IF c = 1 THEN 1 ELSE 0]
  /\ getUrlCalls = [c \in Calls |-> IF c = 1 THEN 1 ELSE 0]
  /\ updateCalls = [c \in Calls |-> IF c = 1 THEN 1 ELSE 0]
  /\ toastCalls = [c \in Calls |-> 0]
  /\ records \in [ValidIds -> {NULL, NoRow}]
  /\ immediate = [c \in Calls |-> FALSE]
  /\ observed = {}

RecordSpec == RecordInit /\ [][Next]_vars

GateNext ==
  \/ \E c \in Calls, imgs \in GateImageLists : TimerFires(c, imgs)
  \/ \E c \in Calls, i \in 1..MaxGateImages : ImageEvent(c, i)
  \/ \E c \in Calls : InsertImage(c)
  \/ \E c \in Calls : LateImageEvent(c)

GateSpec == GateInit /\ [][GateNext]_vars

\* the browser delivers the 200 ms timer, and every image that is still
\* loading fires load or error
GateFairness ==
  /\ WF_vars(\E c \in Calls, imgs \in GateImageLists : TimerFires(c, imgs))
  /\ \A c \in Calls, i \in 1..MaxGateImages : WF_vars(ImageEvent(c, i))

FairGateSpec == GateInit /\ [][GateNext]_vars /\ GateFairness

\* ------------------------------------------------------------- claims

\* call c is between "status set to uploading" and its terminal status write
InFlight(c) == pc[c] \in {"delay", "gate", "raster", "upload", "update", "hung"}

\* the step being taken is the call numbered c
IsCall(c) == input'.op = "call" /\ input'.c = c /\ pc[c] = "idle"

\* the step leaves every sink, the document and the toast untouched
NoSideEffect ==
  /\ body' = body
  /\ tempContainer' = tempContainer
  /\ uploadCalls' = uploadCalls
  /\ getUrlCalls' = getUrlCalls
  /\ updateCalls' = updateCalls
  /\ toastCalls' = toastCalls
  /\ storage' = storage
  /\ records' = records

\* C1: on one hook instance at most one publish attempt is in flight at any
\* time, also for calls made before the hook re-rendered.
C1_AtMostOneInFlight == Cardinality({c \in Calls : InFlight(c)}) <= 1

\* C2: two calls in immediate succession with identical valid arguments make
\* exactly one upload and one record update in total, and the second call
\* returns the URL the first one published.
C2_TwiceIsOnce ==
  \A c \in Calls :
    (c > 1 /\ immediate[c] /\ pc[c] = "done" /\ outcome[c] # "failed"
       /\ outcome[IF c > 1 THEN c - 1 ELSE c] = "success")
      => LET first == c - 1
         IN /\ uploadCalls[first] + uploadCalls[c] = 1
            /\ updateCalls[first] + updateCalls[c] = 1
            /\ ret[c] = publicPdfUrl[first]

\* C3: once a render has handed the callback success with url u, every later
\* call with non-missing arguments returns u and does nothing else.
C3_CachedAfterSuccess ==
  [][\A c \in Calls :
       (IsCall(c) /\ ~(Falsy(input'.a) \/ Falsy(input'.b)) /\ observed # {})
         => /\ \A u \in observed : ret'[c] = u
            /\ NoSideEffect
            /\ pdfUploadStatus' = pdfUploadStatus]_vars

\* C4: a call with missing confirmationData or ankaufsNummer returns null,
\* touches no sink and no container, and changes no status field but error.
C4_ValidationNoEffect ==
  [][\A c \in Calls :
       (IsCall(c) /\ (Falsy(input'.a) \/ Falsy(input'.b)))
         => /\ ret'[c] = NULL
            /\ pc'[c] = "done"
            /\ NoSideEffect
            /\ pdfUploadStatus'.uploading = pdfUploadStatus.uploading
            /\ pdfUploadStatus'.success = pdfUploadStatus.success
            /\ pdfUploadStatus'.url = pdfUploadStatus.url]_vars

\* a call with missing arguments has been rejected while the status was Success
C4_Witness ==
  /\ input.op = "call"
  /\ Falsy(input.a) \/ Falsy(input.b)
  /\ pdfUploadStatus.success
  /\ pdfUploadStatus.error = MsgMissing

\* C5: the status never holds two terminal flags: success with a non-null error.
C5_OneTerminalFlag == ~(pdfUploadStatus.success /\ pdfUploadStatus.error # NULL)

\* C6: when a call has completed, on whatever exit path, the container it
\* created is not attached to document.body.
C6_DetachedAtExit == \A c \in Calls : pc[c] = "done" => c \notin body

\* a call has ended in the catch block while its container was attached
C6_Witness ==
  /\ input.op = "raster"
  /\ input.a # OK
  /\ pc[input.c] = "done"

\* the state is the one reached by handing call c the answer of sink op
Answered(c, op) == input.op = op /\ input.c = c

\* C7 as stated: a rejected upload ends the attempt with the status
\* {false, false, <the upload error message>, null}, one toast, no getPublicUrl
\* or record update call, the return value null and the container detached.
C7_UploadRejectedVerbatim ==
  \A c \in Calls :
    (Answered(c, "upload") /\ input.a # OK)
      => /\ pdfUploadStatus =
              [uploading |-> FALSE, success |-> FALSE, error |-> input.a, url |-> NULL]
         /\ toastCalls[c] = 1
         /\ getUrlCalls[c] = 0
         /\ updateCalls[c] = 0
         /\ ret[c] = NULL
         /\ pc[c] = "done"
         /\ c \notin body

\* C7 amended: as C7, the error field holding the upload error message, or
\* the text 'Unbekannter Fehler beim PDF-Upload.' when that message is empty.
C7_UploadRejected ==
  \A c \in Calls :
    (Answered(c, "upload") /\ input.a # OK)
      => /\ pdfUploadStatus =
              [uploading |-> FALSE, success |-> FALSE,
               error |-> IF input.a = <<>> THEN MsgUnknown ELSE input.a,
               url |-> NULL]
         /\ toastCalls[c] = 1
         /\ getUrlCalls[c] = 0
         /\ updateCalls[c] = 0
         /\ ret[c] = NULL
         /\ pc[c] = "done"
         /\ c \notin body

\* an attempt has ended on a rejected upload
C7_Witness ==
  /\ input.op = "upload"
  /\ input.a # OK
  /\ pc[input.c] = "done"
  /\ toastCalls[input.c] = 1

\* C8: in every variant a fully successful attempt resolves to the public URL
\* u from getPublicUrl, never to null or undefined, and writes the status
\* {false, true, null, u}.
C8_SuccessReturnsUrl ==
  \A c \in Calls :
    (Answered(c, "update") /\ input.a = OK)
      => /\ ret[c] = publicPdfUrl[c]
         /\ ~Falsy(ret[c])
         /\ pdfUploadStatus =
              [uploading |-> FALSE, success |-> TRUE, error |-> NULL, url |-> publicPdfUrl[c]]

\* C9 as stated: a record update error after a successful upload ends the
\* attempt Failed with error = <the db error message>, one toast and null
\* returned; the uploaded object stays in storage and success is not written.
C9_UpdateFailedVerbatim ==
  \A c \in Calls :
    (Answered(c, "update") /\ input.a # OK)
      => /\ pdfUploadStatus =
              [uploading |-> FALSE, success |-> FALSE, error |-> input.a, url |-> NULL]
         /\ toastCalls[c] = 1
         /\ ret[c] = NULL
         /\ outcome[c] = "failed"
         /\ pc[c] = "done"
         /\ storage[FileName(ankaufsNummer[c])] # 0

\* C9 amended: as C9, the error field holding the db error message, or the
\* text 'Unbekannter Fehler beim PDF-Upload.' when that message is empty.
C9_UpdateFailed ==
  \A c \in Calls :
    (Answered(c, "update") /\ input.a # OK)
      => /\ pdfUploadStatus =
              [uploading |-> FALSE, success |-> FALSE,
               error |-> IF input.a = <<>> THEN MsgUnknown ELSE input.a,
               url |-> NULL]
         /\ toastCalls[c] = 1
         /\ ret[c] = NULL
         /\ outcome[c] = "failed"
         /\ pc[c] = "done"
         /\ storage[FileName(ankaufsNummer[c])] # 0

\* an attempt has ended on a failed record update, its object in storage
C9_Witness ==
  /\ input.op = "update"
  /\ input.a # OK
  /\ pc[input.c] = "done"
  /\ storage[FileName(ankaufsNummer[input.c])] # 0

\* C10: when getPublicUrl yields no public URL after a successful upload, the
\* attempt ends Failed with a non-null error and url = null, and no record
\* update call is made.
C10_NoUrlIsFailure ==
  \A c \in Calls :
    (Answered(c, "upload") /\ input.a = OK /\ Falsy(input.b))
      => /\ pdfUploadStatus.error # NULL
         /\ pdfUploadStatus.url = NULL
         /\ ~pdfUploadStatus.success
         /\ ~pdfUploadStatus.uploading
         /\ outcome[c] = "failed"
         /\ pc[c] = "done"
         /\ updateCalls[c] = 0

\* an attempt has ended because getPublicUrl gave no URL
C10_Witness ==
  /\ input.op = "upload"
  /\ input.a = OK
  /\ Falsy(input.b)
  /\ pc[input.c] = "done"
  /\ uploadCalls[input.c] = 1

\* the step whose post-state this is handed call c a failure: the markup could
\* not be built or staged, the rasterizer failed, the upload was rejected, no
\* public URL came back, or the record update failed
StepFailed(c) ==
  \/ Answered(c, "call") /\ outcome[c] = "failed"
  \/ Answered(c, "raster") /\ input.a # OK
  \/ Answered(c, "upload") /\ (input.a # OK \/ Falsy(input.b))
  \/ Answered(c, "update") /\ input.a # OK

\* C11: the promise of generateAndUploadPdf never rejects: whichever pipeline
\* step fails, the error is caught and the call resolves to null with the
\* failure recorded in pdfUploadStatus.error.
C11_FailureResolvesNull ==
  \A c \in Calls :
    StepFailed(c)
      => /\ pc[c] = "done"
         /\ ret[c] = NULL
         /\ pdfUploadStatus.error # NULL
         /\ ~pdfUploadStatus.uploading
         /\ ~pdfUploadStatus.success

\* C12: the toast is invoked exactly once for an attempt that ends Failed and
\* never for a call that ends in Success, is ignored by deduplication or is
\* rejected by validation.
C12_ToastOncePerFailure ==
  \A c \in Calls : toastCalls[c] = IF outcome[c] = "failed" THEN 1 ELSE 0

\* one attempt has failed and raised its toast, another call was ignored
C12_Witness ==
  \E c, d \in Calls :
    /\ outcome[c] = "failed"
    /\ toastCalls[c] = 1
    /\ outcome[d] = "ignored"
    /\ toastCalls[d] = 0

\* the invocation counters of call c
Invocations(c) == <<rasterCalls[c], uploadCalls[c], getUrlCalls[c], updateCalls[c]>>

\* C13: within one attempt the rasterizer, the upload, getPublicUrl and the
\* record update are each invoked at most once, in that order, and once the
\* attempt has ended no step of it is invoked again.
C13_NoRetry ==
  [][\A c \in Calls :
       /\ updateCalls'[c] <= getUrlCalls'[c]
       /\ getUrlCalls'[c] <= uploadCalls'[c]
       /\ uploadCalls'[c] <= rasterCalls'[c]
       /\ rasterCalls'[c] <= 1
       /\ pc[c] \in {"done", "hung"} => Invocations(c)' = Invocations(c)]_vars

\* an attempt has failed after its upload was issued, and a later call was made
C13_Witness ==
  \E c \in Calls :
    /\ outcome[c] = "failed"
    /\ uploadCalls[c] = 1
    /\ updateCalls[c] = 0
    /\ nCalls > c

\* the status is Success, or the Failed status written by a catch block
Terminal ==
  \/ pdfUploadStatus.success
  \/ /\ ~pdfUploadStatus.uploading
     /\ pdfUploadStatus.error # NULL
     /\ \E d \in Calls : outcome[d] = "failed"

\* C14: Success and Failed are terminal: once the status is Success or Failed
\* no call moves it to Uploading or changes its uploading, success or url.
C14_TerminalIsFinal ==
  [][\A c \in Calls :
       (IsCall(c) /\ Terminal)
         => /\ pdfUploadStatus'.uploading = pdfUploadStatus.uploading
            /\ pdfUploadStatus'.success = pdfUploadStatus.success
            /\ pdfUploadStatus'.url = pdfUploadStatus.url]_vars

\* waitForAllImagesInContainer has been called for call c's container
GateCalled(c) == pc[c] = "gate" \/ rasterCalls[c] > 0

\* C15: waitForAllImagesInContainer completes inside the call itself, waiting
\* for no event, when the container holds no img element.
C15_EmptyResolvesAtOnce ==
  \A c \in Calls :
    (Answered(c, "timer") /\ totalImages[c] = 0)
      => /\ resolved[c] = 1
         /\ listeners[c] = {}
         /\ pc[c] = "raster"

\* the gate has just been called on a container without images
C15_Witness ==
  /\ Answered(1, "timer")
  /\ totalImages[1] = 0
  /\ resolved[1] = 1

\* C16: for every set of images and every order of load and error events the
\* gate resolves exactly once: resolve is invoked at most once, each image is
\* counted at most once, the counter never exceeds the number of images, and
\* when no image has an event left to fire resolve has been invoked.
C16_ResolvesExactlyOnce ==
  \A c \in Calls :
    /\ resolved[c] <= 1
    /\ loadedImagesCount[c] <= totalImages[c]
    /\ GateCalled(c) => loadedImagesCount[c] + Cardinality(listeners[c]) = totalImages[c]
    /\ (GateCalled(c) /\ loading[c] = {}) => resolved[c] = 1

\* C17: a broken image cannot hang the gate: whatever state the images are
\* in when the gate is called, it resolves, given that every image still
\* loading fires load or error.
C17_GateEventuallyResolves ==
  \A c \in Calls : (pc[c] = "gate") ~> (resolved[c] = 1)

\* C18: the file name of an attempt is 'begleitschein_' + s + '.pdf', s being
\* the identifier with every character outside [A-Za-z0-9-_] replaced by '_'
\* and every other character kept in place; 'BR/12 34' gives the stem
\* 'BR_12_34', 'BR-12345678' gives 'begleitschein_BR-12345678.pdf'; upload and
\* getPublicUrl are given the same name.
C18_FileNameSanitized ==
  fileNames.fileName # NULL
    => LET id == dataForPdf.ankaufsNummer
           f == fileNames.fileName
       IN /\ Len(f) = Len(id) + 2
          /\ f[1] = "begleitschein_"
          /\ f[Len(f)] = ".pdf"
          /\ \A i \in 1..Len(id) :
               f[i + 1] = IF id[i] \in SafeChars THEN id[i] ELSE "_"
          /\ id = IdSlash
               => f = <<"begleitschein_", "B", "R", "_", "1", "2", "_", "3", "4", ".pdf">>
          /\ id = IdPlain => f = <<"begleitschein_">> \o IdPlain \o <<".pdf">>
          /\ fileNames.upload = f
          /\ fileNames.getPublicUrl = f

\* the file of identifier 'BR/12 34' has been named
C18_Witness ==
  /\ dataForPdf.ankaufsNummer = IdSlash
  /\ fileNames.upload = <<"begleitschein_", "B", "R", "_", "1", "2", "_", "3", "4", ".pdf">>

RECURSIVE ValueOf(_)
\* the number a sequence of decimal digits denotes
ValueOf(ds) ==
  IF ds = <<>> THEN 0
  ELSE 10 * ValueOf(SubSeq(ds, 1, Len(ds) - 1))
         + (CHOOSE v \in 0..9 : DigitChars[v + 1] = ds[Len(ds)])

\* the number of decimal digits of ms (below 10^9)
NumDigits(ms) == CHOOSE k \in 1..9 : ms < 10^k /\ (k = 1 \/ ms >= 10^(k - 1))

\* C19: the identifier of generatePurchaseConfirmationHTML is data.ankaufsNummer
\* unchanged when one is supplied; otherwise it is 'BR-' followed by the last 8
\* decimal digits of the submission timestamp's epoch milliseconds (all of its
\* digits when there are fewer); calls with the same data yield the same
\* identifier.
C19_IdentifierDeterministic ==
  \A k \in DOMAIN identifier :
    LET id == identifier[k]
        given == dataForPdf.ankaufsNummer
        ms == dataForPdf.submissionDate
    IN /\ \A j \in DOMAIN identifier : identifier[j] = id
       /\ ~Falsy(given) => id = given
       /\ (Falsy(given) /\ ms \in TimeStamps)
            => LET tail == SubSeq(id, 4, Len(id))
               IN /\ SubSeq(id, 1, 3) = <<"B", "R", "-">>
                  /\ \A i \in DOMAIN tail : \E v \in 0..9 : tail[i] = DigitChars[v + 1]
                  /\ Len(tail) = IF NumDigits(ms) < 8 THEN NumDigits(ms) ELSE 8
                  /\ ValueOf(tail) = ms % (10^8)

\* two calls without an identifier on a nine-digit timestamp have both
\* derived BR-00000007
C19_Witness ==
  /\ Len(identifier) = 2
  /\ Falsy(dataForPdf.ankaufsNummer)
  /\ dataForPdf.submissionDate = 100000007
  /\ identifier[2] = <<"B", "R", "-", "0", "0", "0", "0", "0", "0", "0", "7">>

\* seq holds part as a contiguous run
Contains(seq, part) ==
  \E i \in 0..(Len(seq) - Len(part)) : SubSeq(seq, i + 1, i + Len(part)) = part

\* the positions of token t in seq
Positions(seq, t) == {i \in DOMAIN seq : seq[i] = t}

\* what stands between the tokens open and close of a document that has both
Region(doc, open, close) ==
  LET i == CHOOSE x \in Positions(doc, open) : \A y \in Positions(doc, open) : x <= y
      j == CHOOSE x \in Positions(doc, close) : \A y \in Positions(doc, close) : x >= y
  IN SubSeq(doc, i + 1, j - 1)

\* doc is a full document shell: doctype first, a title that holds the
\* identifier, style rules, a body region
IsFullDocument(doc, id) ==
  /\ doc[1] = "<!DOCTYPE html>"
  /\ doc[Len(doc)] = "</html>"
  /\ Positions(doc, "<title>") # {} /\ Positions(doc, "</title>") # {}
  /\ Contains(Region(doc, "<title>", "</title>"), id)
  /\ Positions(doc, "<style>") # {} /\ Positions(doc, "</style>") # {}
  /\ Region(doc, "<style>", "</style>") = PdfStyles
  /\ Positions(doc, "<body>") # {} /\ Positions(doc, "</body>") # {}

\* doc is the container block alone: page 1, the page-break marker, page 2
IsContainerBlock(doc) ==
  /\ doc[1] = "<div class=pdf-container>"
  /\ doc[Len(doc)] = "</div>"
  /\ \E a \in Positions(doc, "<div class=pdf-page pdf-page-1>") :
       \E b \in Positions(doc, "<div class=page-break></div>") :
         \E c \in Positions(doc, "<div class=pdf-page pdf-page-2>") :
           a < b /\ b < c
  /\ Positions(doc, "<style>") = {}
  /\ Positions(doc, "<title>") = {}
  /\ Positions(doc, "<body>") = {}

\* C20: the markup of mode 'bodyContent' is the container block alone and
\* occurs unchanged, contiguously, in the body region of the 'fullDocument'
\* markup of the same data; every other mode value, an omitted one included,
\* returns the full document shell with style rules and a title that holds
\* the identifier.
C20_FragmentInsideFull ==
  html # NULL
    => LET fragment == GeneratePurchaseConfirmationHTML(dataForPdf, <<"bodyContent">>)
           full == GeneratePurchaseConfirmationHTML(dataForPdf, <<"fullDocument">>)
       IN /\ IsContainerBlock(fragment)
          /\ IsFullDocument(full, identifier[1])
          /\ Contains(Region(full, "<body>", "</body>"), fragment)
          /\ html = IF outputType = <<"bodyContent">> THEN fragment ELSE full

\* a call that omitted the mode has returned the full document
C20_Witness ==
  /\ outputType = UNDEFINED
  /\ html # NULL
  /\ html[1] = "<!DOCTYPE html>"
  /\ Contains(html, BodyContent(dataForPdf))

\* C21: every started attempt runs to completion: once a call has set the
\* status to uploading it ends with a terminal status write and returns,
\* given that timers and pending image events are delivered and that every
\* collaborator call comes back.
C21_AttemptCompletes ==
  \A c \in Calls : (pc[c] = "delay") ~> (pc[c] = "done")

\* the status is the Failed one a catch block wrote, and the callback in use
\* was created by a render that saw it
FailedObserved ==
  /\ ~pdfUploadStatus.uploading
  /\ ~pdfUploadStatus.success
  /\ pdfUploadStatus.error # NULL
  /\ \E d \in Calls : outcome[d] = "failed"
  /\ closure = Captured(pdfUploadStatus)

\* C22: after an attempt has ended Failed and the hook has observed it, a new
\* call with valid arguments starts a fresh attempt: the status becomes
\* {uploading: true, success: false, error: null, url: null} and the pipeline
\* runs from its first step (or the attempt fails again while its markup is built).
C22_FreshAttemptAfterFailure ==
  [][\A c \in Calls :
       (IsCall(c) /\ ~MissingArgs(input'.a, input'.b) /\ FailedObserved)
         => \/ /\ pdfUploadStatus' = [uploading |-> TRUE, success |-> FALSE,
                                       error |-> NULL, url |-> NULL]
               /\ pc'[c] = "delay"
               /\ c \in body'
               /\ Invocations(c)' = <<0, 0, 0, 0>>
            \/ /\ outcome'[c] = "failed"
               /\ pdfUploadStatus'.error = MsgAssemble
               /\ toastCalls'[c] = 1]_vars

\* a call has started an attempt after an earlier attempt failed in its pipeline
C22_Witness ==
  /\ input.op = "call"
  /\ pc[input.c] = "delay"
  /\ pdfUploadStatus.uploading
  /\ pdfUploadStatus.error = NULL
  /\ \E d \in Calls : d < input.c /\ outcome[d] = "failed" /\ uploadCalls[d] = 1

\* C23: a call that observes uploading = true starts no second attempt (no
\* container, rasterization, upload, record update or status write) and
\* returns the observed status url, which is null.
C23_IgnoredWhileUploading ==
  [][\A c \in Calls :
       (IsCall(c) /\ ~MissingArgs(input'.a, input'.b) /\ closure.uploading)
         => /\ ret'[c] = NULL
            /\ ret'[c] = closure.url
            /\ pc'[c] = "done"
            /\ NoSideEffect
            /\ Invocations(c)' = <<0, 0, 0, 0>>
            /\ pdfUploadStatus' = pdfUploadStatus]_vars

\* a call has been ignored while another attempt was in flight
C23_Witness ==
  /\ input.op = "call"
  /\ outcome[input.c] = "ignored"
  /\ ret[input.c] = NULL
  /\ \E d \in Calls : InFlight(d)

\* the step being taken hands call c the answer of collaborator op
Answers(c, op) == input'.op = op /\ input'.c = c

\* C24: the steps of one attempt are strictly sequential: the container is
\* attached before the gate starts, the rasterizer starts only when the gate
\* has completed, the upload only when the rasterizer has returned its
\* binary, getPublicUrl only when the upload returned without error, the
\* record update only when a non-empty URL was resolved, and Success is
\* written only when the record update returned without error.
C24_StrictSequence ==
  [][\A c \in Calls :
       /\ (pc'[c] = "gate" /\ pc[c] # "gate") => (c \in body /\ pc[c] = "delay")
       /\ rasterCalls'[c] > rasterCalls[c]
            => /\ c \in body
               /\ Answers(c, "timer") \/ Answers(c, "image")
               /\ resolved'[c] = 1
               /\ loadedImagesCount'[c] = totalImages'[c]
       /\ uploadCalls'[c] > uploadCalls[c]
            => /\ pc[c] = "raster"
               /\ Answers(c, "raster")
               /\ input'.a \in {OK, EmptyBlob, NullBlob}
       /\ getUrlCalls'[c] > getUrlCalls[c]
            => (pc[c] = "upload" /\ Answers(c, "upload") /\ input'.a = OK)
       /\ updateCalls'[c] > updateCalls[c]
            => /\ getUrlCalls'[c] = 1
               /\ Answers(c, "upload")
               /\ ~Falsy(input'.b)
               /\ publicPdfUrl'[c] = input'.b
       /\ (outcome'[c] = "success" /\ outcome[c] # "success")
            => (pc[c] = "update" /\ Answers(c, "update") /\ input'.a = OK)]_vars

\* an attempt whose container held an image has gone through every step
C24_Witness ==
  \E c \in Calls :
    /\ outcome[c] = "success"
    /\ totalImages[c] = 1
    /\ Invocations(c) = <<1, 1, 1, 1>>

\* C25: the gate never resolves early: with at least one image in the
\* container it has not resolved while some enumerated image was neither
\* found loaded nor has fired load or error.
C25_NeverResolvesEarly ==
  \A c \in Calls :
    (resolved[c] >= 1 /\ totalImages[c] >= 1)
      => /\ listeners[c] = {}
         /\ loadedImagesCount[c] = totalImages[c]

\* the gate has resolved on the event of the last of several images
C25_Witness ==
  /\ Answered(1, "image")
  /\ totalImages[1] = MaxGateImages
  /\ resolved[1] = 1

\* C26: the gate tracks a snapshot: the total it waits for is the number of
\* images present at its call, and an image inserted afterwards neither
\* delays nor triggers its completion.
C26_StaticSnapshot ==
  \A c \in Calls :
    GateCalled(c)
      => /\ totalImages[c] = loadedImagesCount[c] + Cardinality(listeners[c])
         /\ (resolved[c] = 1) <=> (loadedImagesCount[c] = totalImages[c])

\* the gate has completed while an image inserted after its call still loads
C26_Witness ==
  /\ Answered(1, "image")
  /\ resolved[1] = 1
  /\ inserted[1] = 1
  /\ lateLoading[1] = 1

\* what C27 says in every reading: a container is attached only by the first
\* task of its own call, stays attached while its attempt waits for the timer,
\* the gate or the rasterizer, is detached only by a step of its own attempt
\* and is never attached again
OwnContainer(c) ==
  /\ (c \in body' /\ c \notin body) => IsCall(c)
  /\ pc'[c] \in {"delay", "gate", "raster"} => (c \in body' /\ tempContainer'[c])
  /\ (c \in body /\ c \notin body') => input'.c = c
  /\ (c \notin body /\ pc[c] # "idle") => c \notin body'

\* C27 as stated: every attempt attaches its own container exactly once, keeps
\* it attached for the readiness wait and the rasterization, never uses it
\* after it was detached, and no container serves two attempts.
C27_AttachedExactlyOnce ==
  [][\A c \in Calls :
       /\ OwnContainer(c)
       /\ (IsCall(c) /\ Starts(input'.a, input'.b)) => c \in body']_vars

\* C27 amended: every attempt attaches its own container at most once (not
\* at all when building the markup fails), keeps it attached for the
\* readiness wait and the rasterization, never uses it after it was
\* detached, and no container serves two attempts.
C27_AttachedAtMostOnce ==
  [][\A c \in Calls : OwnContainer(c)]_vars

\* two overlapping attempts have each their own container attached
C27_Witness ==
  \E c, d \in Calls :
    /\ c # d
    /\ pc[c] = "raster"
    /\ pc[d] = "gate"
    /\ {c, d} \subseteq body

\* C28: derived identifiers name a transaction uniquely: for any two distinct
\* submission timestamps, the generator called without an ankaufsNummer
\* derives two distinct identifiers.
C28_DerivedIdsDistinct ==
  (/\ Len(identifier) >= 1
   /\ Falsy(dataForPdf.ankaufsNummer)
   /\ dataForPdf.submissionDate \in TimeStamps)
    => \A other \in TimeStamps \ {dataForPdf.submissionDate} :
         AnkaufsNummerOf([dataForPdf EXCEPT !.submissionDate = other]) # identifier[1]

\* C29: in every pipeline, the data handed to the generator carries a
\* submission timestamp: an absent confirmationData.submissionDate has been
\* replaced by the current time before the generator is called, so the
\* generator does not format an absent date.
C29_DateAssignedBeforeAssembly ==
  pipeline # "none"
    => /\ dataForPdf.submissionDate # AbsentDate
       /\ (dataForPdf.submissionDate \in TimeStamps => ~Contains(html, <<"Invalid Date">>))

\* C30: in the jsPDF pipeline the container is filled with one style block
\* holding the import-stripped rules, followed by the body-only fragment of
\* the generator: no document shell and no second style block.
C30_JsPdfInjectsFragment ==
  pipeline = "jsPDF"
    => /\ innerHTML = StyleBlock \o BodyContent(dataForPdf)
       /\ ~Contains(innerHTML, <<"<html lang=de>">>)
       /\ ~Contains(innerHTML, <<"<head>">>)
       /\ Cardinality(Positions(innerHTML, "<style>")) = 1
       /\ ~Contains(innerHTML, <<"@import">>)

\* C31: when the rasterizer yields no usable binary (null, or a Blob of size
\* 0), the attempt ends Failed with a non-null error and no upload call: an
\* absent or empty binary is never uploaded.
C31_NoUsableBinaryFails ==
  \A c \in Calls :
    (Answered(c, "raster") /\ input.a \in {EmptyBlob, NullBlob})
      => /\ outcome[c] = "failed"
         /\ pdfUploadStatus.error # NULL
         /\ ~pdfUploadStatus.success
         /\ uploadCalls[c] = 0

\* C32: re-upload for one identifier is idempotent: every upload asks for
\* replacement (upsert), so an upload to a file name that is in storage
\* already is not refused as a conflict; storage holds one object per file
\* name, and it is the one of the latest upload that returned without error.
C32_ReuploadReplaces ==
  [][/\ UploadOptions.upsert
     /\ input'.op # "upload" => storage' = storage
     /\ \A c \in Calls :
          Answers(c, "upload")
            => /\ input'.a # MsgConflict
               /\ input'.a = OK
                    => storage' = [storage EXCEPT ![FileName(ankaufsNummer[c])] = c]
               /\ input'.a # OK => storage' = storage]_vars

\* a new attempt for an identifier has replaced the object that an earlier
\* attempt, failed at the record update, had left in storage
C32_Witness ==
  /\ input.op = "upload"
  /\ input.a = OK
  /\ storage[FileName(ankaufsNummer[input.c])] = input.c
  /\ \E d \in Calls :
       /\ d < input.c
       /\ ankaufsNummer[d] = ankaufsNummer[input.c]
       /\ outcome[d] = "failed"
       /\ updateCalls[d] = 1

\* C33: whatever the record store held at the start, when pdfUploadStatus is
\* success with url u after an attempt for an identifier, the record keyed
\* by that identifier holds u in pdf_url: Success is never reported while no
\* record carries the published address.
C33_SuccessMeansRecorded ==
  \A c \in Calls :
    (Answered(c, "update") /\ pdfUploadStatus.success)
      => records[ankaufsNummer[c]] = pdfUploadStatus.url

\* C34: in every reachable state of pdfUploadStatus, under any sequence and
\* interleaving of calls: success implies a non-null url and not uploading;
\* a non-null url implies success; uploading implies neither success nor a url.
C34_StatusFlagsConsistent ==
  /\ pdfUploadStatus.success
       => (pdfUploadStatus.url # NULL /\ ~Falsy(pdfUploadStatus.url)
             /\ ~pdfUploadStatus.uploading)
  /\ pdfUploadStatus.url # NULL => pdfUploadStatus.success
  /\ pdfUploadStatus.uploading
       => (~pdfUploadStatus.success /\ pdfUploadStatus.url = NULL)

\* an attempt has written Success while another attempt is still in flight
C34_Witness ==
  /\ input.op = "update"
  /\ pdfUploadStatus.success
  /\ pdfUploadStatus.url # NULL
  /\ \E d \in Calls : d # input.c /\ InFlight(d)

\* the callback in use captured the Success of an attempt for identifier a
ObservedSuccessFor(a) ==
  /\ closure.success
  /\ \E d \in Calls :
       /\ outcome[d] = "success"
       /\ ankaufsNummer[d] = a
       /\ closure.url = publicPdfUrl[d]

\* C35: the success cache is keyed by the hook's state, not by the
\* identifier: once the Success of an attempt for A has been observed, a call
\* for another identifier B returns the URL published for A, makes no upload
\* and no record update, and leaves the record keyed B as it was.
C35_CacheIgnoresIdentifier ==
  [][\A c \in Calls : \A a \in ValidIds :
       (/\ IsCall(c)
        /\ ~MissingArgs(input'.a, input'.b)
        /\ input'.b # a
        /\ ObservedSuccessFor(a))
         => /\ ret'[c] = PublicUrlOf(FileName(a))
            /\ pc'[c] = "done"
            /\ NoSideEffect
            /\ Invocations(c)' = <<0, 0, 0, 0>>
            /\ pdfUploadStatus' = pdfUploadStatus]_vars

\* a call for another identifier has been answered from the cache
C35_Witness ==
  /\ input.op = "call"
  /\ outcome[input.c] = "cached"
  /\ input.b \in ValidIds
  /\ records[input.b] = NULL
  /\ \E d \in Calls :
       /\ outcome[d] = "success"
       /\ ankaufsNummer[d] # input.b
       /\ ret[input.c] = publicPdfUrl[d]

\* C36: two attempts with distinct identifiers never write the same storage
\* object: for any two distinct non-empty identifiers the file names
\* begleitschein_<sanitized>.pdf are distinct.
C36_FileNamesDistinct ==
  fileNames.fileName # NULL
    => \A other \in LibIds :
         (~Falsy(other) /\ other # dataForPdf.ankaufsNummer)
           => FileName(other) # fileNames.upload

\* C37: the staging container is detached before any network step: from the
\* moment the upload is issued, through getPublicUrl and the record update,
\* the attempt's container is not attached to document.body.
C37_DetachedBeforeNetwork ==
  \A c \in Calls :
    (uploadCalls[c] >= 1 \/ pc[c] \in {"upload", "update"})
      => /\ c \notin body
         /\ ~tempContainer[c]

\* the rasterizer has returned and the upload is under way
C37_Witness ==
  \E c \in Calls :
    /\ Answered(c, "raster")
    /\ pc[c] = "upload"
    /\ uploadCalls[c] = 1
    /\ totalImages[c] = 1
    /\ c \notin body

RECURSIVE KeptInOrder(_, _)
\* short is what is left of long when some of its tokens are dropped
KeptInOrder(short, long) ==
  IF short = <<>> THEN TRUE
  ELSE IF long = <<>> THEN FALSE
  ELSE IF Head(short) = Head(long) THEN KeptInOrder(Tail(short), Tail(long))
  ELSE KeptInOrder(short, Tail(long))

\* C38: stripCssImports removes every import directive: its result holds no
\* occurrence of the form '@import url(...);', everything else is kept
\* unchanged and in order, and applying it a second time changes nothing.
C38_StripRemovesEveryImport ==
  cleanedCss # NULL
    => /\ \A i \in 1..Len(cleanedCss) : ImportMatch(cleanedCss, i) = 0
       /\ KeptInOrder(cleanedCss, rawCss)
       /\ StripCssImports(cleanedCss) = cleanedCss

====
